---------------------------- MODULE Spec2Model ----------------------------
(***************************************************************************)
(* Model of the credential-protected configuration store and selective-   *)
(* file git synchronisation of integrated_app:                            *)
(*   config_handler.py   the JSON configuration store and its sanitiser   *)
(*   user_encryption.py  the encrypted users/credentials document         *)
(*   main_advanced.py    the main server: config endpoints, git pull/push *)
(*   user_server.py      the user server: config endpoints                *)
(*                                                                         *)
(* A Python dict is a TLA+ function whose domain is its set of keys; a     *)
(* string that may be a Fernet ciphertext is a record [enc, txt] where enc *)
(* is the id of the key it was encrypted under (0: plaintext).             *)
(***************************************************************************)
EXTENDS Integers, Sequences, FiniteSets, TLC

\* ------------------------------------------------------------------ bounds

\* How many encryption keys may ever be generated (one key loss = one more).
MaxKeys == 2

\* ----------------------------------------------------------------- strings

Plain(t) == [enc |-> 0, txt |-> t]

Fernet(k, t) == [enc |-> k, txt |-> t]

Empty == Plain("")

\* str.strip(): the only whitespace-only string of the model is " ".
Strip(t) == IF t = " " THEN "" ELSE t

\* Python truthiness of a str.
Truthy(t) == t # ""

\* The secret values a client may send as a token.
Tokens == {"ghp_A", "ghp_B"}

\* ---------------------------------------------------------- dict helpers

EmptyDict == [k \in {} |-> ""]

\* dict.pop(key, None) on a copy
Pop(d, key) == [k \in (DOMAIN d) \ {key} |-> d[k]]

\* d[key] = value
Put(d, key, value) == [k \in (DOMAIN d) \cup {key} |-> IF k = key THEN value ELSE d[k]]

\* d.update(u)
DictUpdate(d, u) == [k \in (DOMAIN d) \cup (DOMAIN u) |-> IF k \in DOMAIN u THEN u[k] ELSE d[k]]

\* d.get(key, dflt)
Get(d, key, dflt) == IF key \in DOMAIN d THEN d[key] ELSE dflt


\* ------------------------------------------------------------------ state

VARIABLES
    keyState,     \* [salt: the salt in SALT_FILE (0: file missing), key_file: KEY_FILE exists, count: salts generated so far]
    usersFile,    \* USERS_FILE: [exists, key: key it is encrypted under, doc: the JSON document]
    configFile,   \* app_config.json: [exists, doc]
    defaultCfg,   \* config_handler.DEFAULT_CONFIG, one module global per server process
    lastResp,     \* the body of the last HTTP response of a configuration endpoint
    server,       \* which server process runs: "main" (main_advanced.py) or "user" (user_server.py)
    lastMut,      \* history: the last completed save_github_token / delete_github_token call
    proc,         \* per thread, the vault call in progress: its position and local variables
    tree,         \* the real file tree: path -> content, for the files that exist
    remote,       \* the remote repository: [exists: the sync branch exists, files: what it holds, others: further branches]
    localRepo,    \* the repository at the configured local path: [origin: it is one and has an origin, url_token, branch]
    stagingDirs,  \* the staging directories on disk: name -> [files, url_token: token in the remote URL, head]
    call          \* per slot, the git_pull / git_push call in progress or last returned

vaultVars == <<keyState, usersFile>>

cfgVars == <<configFile, defaultCfg, lastResp, server>>

gitVars == <<tree, remote, localRepo, stagingDirs, call>>

\* ------------------------------------------------- user_encryption.py

\* Neither SALT_FILE nor KEY_FILE exists.
NoKey == [salt |-> 0, key_file |-> FALSE, count |-> 0]

\* generate_encryption_key: a fresh random salt, written over SALT_FILE, gives a
\* key no earlier call derived. A key is named after the salt it is derived from.

generate_encryption_key(ks) ==
    [key |-> ks.count + 1,
     ks |-> [salt |-> ks.count + 1, key_file |-> TRUE, count |-> ks.count + 1]]

\* load_encryption_key: regenerate when either file is missing, else re-derive
\* the key from the persisted salt.
load_encryption_key(ks) ==
    IF ~ks.key_file \/ ks.salt = 0
    THEN generate_encryption_key(ks)
    ELSE [key |-> ks.salt, ks |-> ks]

\* The default admin user of decrypt_data and initialize_default_users.
AdminUser == [username |-> "admin", password_hash |-> "default", is_active |-> TRUE]

\* What decrypt_data returns when the file is absent or cannot be decrypted.
DefaultData == [users |-> <<AdminUser>>]

\* decrypt_data: the document, or the default data when the file is missing or
\* Fernet rejects it (wrong key, corrupt bytes). The key is loaded (and possibly
\* generated) only when the file exists.
decrypt_data(file, ks) ==
    IF ~file.exists
    THEN [data |-> DefaultData, ks |-> ks]
    ELSE LET lk == load_encryption_key(ks)
         IN  [data |-> IF file.key = lk.key THEN file.doc ELSE DefaultData, ks |-> lk.ks]

\* save_users_data: encrypt the whole document under the current key and write it.
\* (last_modified and version are metadata the model leaves out.)
save_users_data_drops_token(users_data, ks) ==
    LET lk == load_encryption_key(ks)
    IN  [ret |-> TRUE,
         file |-> [exists |-> TRUE, key |-> lk.key, doc |-> Pop(users_data, "github_token")],
         ks |-> lk.ks]

save_users_data(users_data, ks) ==
    LET lk == load_encryption_key(ks)
    IN  [ret |-> TRUE, file |-> [exists |-> TRUE, key |-> lk.key, doc |-> users_data], ks |-> lk.ks]

\* save_users_data when writing USERS_FILE raises (the directory or the file is
\* not writable): the except branch returns False; the data was encrypted, so
\* the key was loaded, and the file is as it was.
save_users_data_fails(file, ks) ==
    [ret |-> FALSE, file |-> file, ks |-> load_encryption_key(ks).ks]

\* encrypt_string
encrypt_string(text, ks) ==
    IF text = ""
    THEN [out |-> Empty, ks |-> ks]
    ELSE LET lk == load_encryption_key(ks)
         IN  [out |-> Fernet(lk.key, text), ks |-> lk.ks]

\* decrypt_string: on any failure the except branch returns encrypted_text itself.
decrypt_string(encrypted_text, ks) ==
    IF encrypted_text = Empty
    THEN [out |-> Empty, ks |-> ks]
    ELSE LET lk == load_encryption_key(ks)
         IN  [out |-> IF encrypted_text.enc = lk.key THEN Plain(encrypted_text.txt)
                      ELSE encrypted_text,
              ks |-> lk.ks]

\* A save that leaves a token already stored as it is.
save_keeps_stored_token(data, token, ks) ==
    IF "github_token" \in DOMAIN data /\ "token" \in DOMAIN data["github_token"]
    THEN [data |-> data, ks |-> ks]
    ELSE [data |-> Put(data, "github_token", [token |-> encrypt_string(token, ks).out]),
          ks |-> encrypt_string(token, ks).ks]

\* The modify step of save_github_token (lines 331-337): encrypt the token and
\* put it under github_token.token. (updated_at is left out.)
save_github_token_modify(data, token, ks) ==
    LET d1 == IF "github_token" \notin DOMAIN data THEN Put(data, "github_token", EmptyDict) ELSE data
        e  == encrypt_string(token, ks)
    IN  [data |-> Put(d1, "github_token", Put(d1["github_token"], "token", e.out)), ks |-> e.ks]

save_github_token(token, file, ks) ==
    LET d == decrypt_data(file, ks)
        m == save_github_token_modify(d.data, token, d.ks)
        s == save_users_data(m.data, m.ks)
    IN  [ret |-> TRUE, file |-> s.file, ks |-> s.ks]

\* save_github_token when save_users_data fails: its result is not looked at
\* (line 339), and the call returns True.
save_github_token_unwritten(token, file, ks) ==
    LET d == decrypt_data(file, ks)
        m == save_github_token_modify(d.data, token, d.ks)
        s == save_users_data_fails(file, m.ks)
    IN  [ret |-> TRUE, file |-> s.file, ks |-> s.ks]

get_github_token(file, ks) ==
    LET d == decrypt_data(file, ks)
        github_data == Get(d.data, "github_token", EmptyDict)
        encrypted_token == Get(github_data, "token", Empty)
    IN  IF encrypted_token = Empty
        THEN [ret |-> Empty, ks |-> d.ks]
        ELSE LET t == decrypt_string(encrypted_token, d.ks)
             IN  [ret |-> t.out, ks |-> t.ks]

delete_github_token(file, ks) ==
    LET d == decrypt_data(file, ks)
    IN  IF "github_token" \in DOMAIN d.data
        THEN LET s == save_users_data(Pop(d.data, "github_token"), d.ks)
             IN  [ret |-> TRUE, file |-> s.file, ks |-> s.ks]
        ELSE [ret |-> TRUE, file |-> file, ks |-> d.ks]

\* The index of the first user named username, 0 when there is none.
FirstIndex(users, username) ==
    IF \E i \in 1..Len(users) : users[i]["username"] = username
    THEN CHOOSE i \in 1..Len(users) :
            /\ users[i]["username"] = username
            /\ \A j \in 1..(i - 1) : users[j]["username"] # username
    ELSE 0

\* An update that builds the document anew around the users list.
update_user_rebuilds_document(data, username, user_data) ==
    LET users == Get(data, "users", <<>>)
        i == FirstIndex(users, username)
    IN  [users |-> IF i # 0
                   THEN [users EXCEPT ![i] = DictUpdate(users[i], user_data)]
                   ELSE Append(users, Put(user_data, "username", username))]

\* The modify step of update_user: update the first user of that name in place,
\* or append user_data as a new user. (The timestamps are left out.)
update_user_modify(data, username, user_data) ==
    LET users == Get(data, "users", <<>>)
        i == FirstIndex(users, username)
    IN  Put(data, "users",
            IF i # 0
            THEN [users EXCEPT ![i] = DictUpdate(users[i], user_data)]
            ELSE Append(users, Put(user_data, "username", username)))

update_user(username, user_data, file, ks) ==
    LET d == decrypt_data(file, ks)
        s == save_users_data(update_user_modify(d.data, username, user_data), d.ks)
    IN  [ret |-> s.ret, file |-> s.file, ks |-> s.ks]

\* [user for user in users if user["username"] != username]
RECURSIVE FilterOut(_, _)
FilterOut(users, username) ==
    IF users = <<>> THEN <<>>
    ELSE IF Head(users)["username"] = username THEN FilterOut(Tail(users), username)
    ELSE <<Head(users)>> \o FilterOut(Tail(users), username)

delete_user(username, file, ks) ==
    LET d == decrypt_data(file, ks)
        s == save_users_data(Put(d.data, "users", FilterOut(Get(d.data, "users", <<>>), username)), d.ks)
    IN  [ret |-> s.ret, file |-> s.file, ks |-> s.ks]

\* get_user_by_username(username) is not None
user_exists(username, file, ks) ==
    LET d == decrypt_data(file, ks)
    IN  [ret |-> FirstIndex(Get(d.data, "users", <<>>), username) # 0, ks |-> d.ks]

\* create_user: refuse an existing name, else update_user with the new record.
create_user(username, password_hash, file, ks) ==
    LET e == user_exists(username, file, ks)
        new_user == [username |-> username, password_hash |-> password_hash, is_active |-> TRUE]
    IN  IF e.ret
        THEN [ret |-> FALSE, file |-> file, ks |-> e.ks]
        ELSE update_user(username, new_user, file, e.ks)

\* bool(token and token.strip()): base64 ciphertext text is never blank.
StrNonBlank(s) == IF s.enc = 0 THEN Strip(s.txt) # "" ELSE TRUE

github_token_exists(file, ks) ==
    LET g == get_github_token(file, ks)
    IN  [ret |-> StrNonBlank(g.ret), ks |-> g.ks]


\* --------------------------------------------------- config_handler.py

\* DEFAULT_CONFIG, cut to the two sections the model follows.
DEFAULT_CONFIG ==
    [app |-> [account_code |-> ""], github |-> [token |-> "", branch |-> "main"]]

NoFile == [exists |-> FALSE, doc |-> EmptyDict]

\* load_config: the file's document, or the module global DEFAULT_CONFIG itself
\* (not a copy) when the file is absent.
ch_load_config(cf, dflt) == IF ~cf.exists THEN dflt ELSE cf.doc

\* A sanitiser that forgets one of the two token fields.
sanitize_keeps_githubToken(config) ==
    IF "github" \in DOMAIN config
    THEN Put(config, "github", Put(Pop(config["github"], "token"), "token", ""))
    ELSE config

\* sanitize_config_for_storage: on a deep copy, drop github.githubToken and
\* github.token and put back an empty github.token.
sanitize_config_for_storage(config) ==
    IF "github" \in DOMAIN config
    THEN Put(config, "github", Put(Pop(Pop(config["github"], "githubToken"), "token"), "token", ""))
    ELSE config

\* save_config: write the sanitised copy and return it.
ch_save_config(config) ==
    LET sanitized_config == sanitize_config_for_storage(config)
    IN  [ret |-> sanitized_config, file |-> [exists |-> TRUE, doc |-> sanitized_config]]

\* deep_update: sections are dicts of strings, so the recursion is one level deep.
deep_update(source, updates) ==
    [k \in (DOMAIN source) \cup (DOMAIN updates) |->
        IF k \notin DOMAIN updates THEN source[k]
        ELSE IF k \in DOMAIN source THEN DictUpdate(source[k], updates[k])
        ELSE updates[k]]

\* update_config: deep_update works in place on what load_config returned, which
\* is DEFAULT_CONFIG when the file is absent.
ch_update_config(config_update, cf, dflt) ==
    LET updated_config == deep_update(ch_load_config(cf, dflt), config_update)
        s == ch_save_config(updated_config)
    IN  [ret |-> s.ret, file |-> s.file, dflt |-> IF ~cf.exists THEN updated_config ELSE dflt]

\* delete_config
ch_delete_config(cf) == NoFile

\* ------------------------------------- main_advanced.py: configuration

\* get_default_config, cut to the same two sections.
get_default_config ==
    [app |-> [account_code |-> ""], github |-> [githubToken |-> "", branchName |-> ""]]

\* load_config: pops the token fields of what config_handler.load_config
\* returned, in place.
load_config(cf, dflt) ==
    LET config == ch_load_config(cf, dflt)
        popped == IF config # EmptyDict /\ "github" \in DOMAIN config
                  THEN Put(config, "github", Pop(Pop(config["github"], "githubToken"), "token"))
                  ELSE config
    IN  [ret |-> popped, dflt |-> IF ~cf.exists THEN popped ELSE dflt]

\* A response sanitiser that leaves github.token in.
sanitize_response_keeps_token(config, file, ks) ==
    IF "github" \in DOMAIN config
    THEN LET e == github_token_exists(file, ks)
         IN  [ret |-> Put(config, "github",
                          Pop(Put(config["github"], "hasToken", e.ret), "githubToken")),
              ks |-> e.ks]
    ELSE [ret |-> config, ks |-> ks]

\* sanitize_config_response: on a deep copy, add github.hasToken and drop the
\* token fields. github_token_exists is called only when there is a github section.
sanitize_config_response(config, file, ks) ==
    IF "github" \in DOMAIN config
    THEN LET e == github_token_exists(file, ks)
         IN  [ret |-> Put(config, "github",
                          Pop(Pop(Put(config["github"], "hasToken", e.ret), "githubToken"), "token")),
              ks |-> e.ks]
    ELSE [ret |-> config, ks |-> ks]

\* The head of the save, update and replace endpoints: take github.githubToken
\* out of the request document (None and "" are both falsy, so "" stands for both).
take_github_token(config_update) ==
    IF "github" \in DOMAIN config_update /\ "githubToken" \in DOMAIN config_update["github"]
    THEN [github_token |-> config_update["github"]["githubToken"],
          doc |-> Put(config_update, "github", Pop(config_update["github"], "githubToken"))]
    ELSE [github_token |-> "", doc |-> config_update]

\* "if github_token: if github_token.strip(): save_github_token(...) else: delete_github_token()"
store_github_token(github_token, file, ks) ==
    IF Truthy(github_token)
    THEN IF Truthy(Strip(github_token))
         THEN save_github_token(Strip(github_token), file, ks)
         ELSE delete_github_token(file, ks)
    ELSE [ret |-> TRUE, file |-> file, ks |-> ks]

\* ------------------------------------------------ request documents

\* The github sections a client may send: the token fields absent, empty, blank
\* or a secret, alone and beside another field.
GithubSections ==
    { EmptyDict,
      [githubToken |-> "ghp_A"], [githubToken |-> ""], [githubToken |-> " "],
      [token |-> "ghp_A"], [branchName |-> "dev"],
      [githubToken |-> "ghp_A", token |-> "ghp_A", branchName |-> "dev"] }

AppSection == [account_code |-> "acme"]

\* The documents a client may send.
ConfigDocs ==
    {EmptyDict, [app |-> AppSection]} \cup { [github |-> g] : g \in GithubSections }

Response(endpoint, ok, config) == [endpoint |-> endpoint, ok |-> ok, config |-> config]

NoResponse == Response("none", TRUE, EmptyDict)


\* ------------------------------- main_advanced.py: config endpoints

notCfg == <<lastMut, proc, gitVars>>

\* POST /api/config (save_config_endpoint, ConfigRequest): the sections given are
\* merged into the loaded config with dict.update, the config is saved through
\* config_handler.save_config and the merged config itself is returned. A section
\* the loaded config lacks raises KeyError, answered with HTTP 500.
MainPostApiConfig(req) ==
    LET l == load_config(configFile, defaultCfg)
        aliased == ~configFile.exists /\ l.ret # EmptyDict
        current_config == IF l.ret # EmptyDict THEN l.ret ELSE get_default_config
        appOk == "app" \in DOMAIN req => "app" \in DOMAIN current_config
        c1 == IF "app" \in DOMAIN req /\ appOk
              THEN Put(current_config, "app", DictUpdate(current_config["app"], req["app"]))
              ELSE current_config
        ghOk == "github" \in DOMAIN req => "github" \in DOMAIN c1
        c2 == IF "github" \in DOMAIN req /\ ghOk
              THEN Put(c1, "github", DictUpdate(c1["github"], req["github"]))
              ELSE c1
        s == ch_save_config(c2)
    IN  /\ server = "main"
        /\ IF appOk /\ ghOk
           THEN /\ configFile' = s.file
                /\ defaultCfg' = IF aliased THEN c2 ELSE l.dflt
                /\ lastResp' = Response("POST /api/config", TRUE, c2)
           ELSE /\ configFile' = configFile
                /\ defaultCfg' = IF aliased THEN (IF appOk THEN c1 ELSE current_config) ELSE l.dflt
                /\ lastResp' = Response("POST /api/config", FALSE, EmptyDict)
        /\ UNCHANGED <<vaultVars, server, notCfg>>

\* PUT /api/config (put_config): the response's "config" is the boolean that
\* main_advanced.save_config returns, not a document.
MainPutApiConfig(config_data) ==
    /\ server = "main"
    /\ configFile' = ch_save_config(config_data).file
    /\ lastResp' = Response("PUT /api/config", TRUE, EmptyDict)
    /\ UNCHANGED <<vaultVars, defaultCfg, server, notCfg>>

\* GET /api/config/load
MainLoad ==
    LET r == sanitize_config_response(ch_load_config(configFile, defaultCfg), usersFile, keyState)
    IN  /\ server = "main"
        /\ lastResp' = Response("GET /api/config/load", TRUE, r.ret)
        /\ keyState' = r.ks
        /\ UNCHANGED <<usersFile, configFile, defaultCfg, server, notCfg>>

\* POST /api/config/save and PUT /api/config/replace: the same body.
MainSaveOrReplace(endpoint, config_update) ==
    LET t == take_github_token(config_update)
        s == ch_save_config(t.doc)
        v == store_github_token(t.github_token, usersFile, keyState)
        r == sanitize_config_response(s.ret, v.file, v.ks)
    IN  /\ server = "main"
        /\ configFile' = s.file
        /\ usersFile' = v.file
        /\ keyState' = r.ks
        /\ lastResp' = Response(endpoint, TRUE, r.ret)
        /\ UNCHANGED <<defaultCfg, server, notCfg>>

MainSave(config_update) == MainSaveOrReplace("POST /api/config/save", config_update)

MainReplace(config_update) == MainSaveOrReplace("PUT /api/config/replace", config_update)

\* PATCH /api/config/update (the first of the two handlers registered for the
\* route, which is the one the router dispatches to).
MainUpdate(config_update) ==
    LET t == take_github_token(config_update)
        cu == IF "github" \in DOMAIN t.doc /\ t.doc["github"] = EmptyDict /\ t.doc # config_update
              THEN Pop(t.doc, "github") ELSE t.doc
        u == ch_update_config(cu, configFile, defaultCfg)
        v == store_github_token(t.github_token, usersFile, keyState)
        r == sanitize_config_response(u.ret, v.file, v.ks)
    IN  /\ server = "main"
        /\ configFile' = u.file
        /\ defaultCfg' = u.dflt
        /\ usersFile' = v.file
        /\ keyState' = r.ks
        /\ lastResp' = Response("PATCH /api/config/update", TRUE, r.ret)
        /\ UNCHANGED <<server, notCfg>>

\* DELETE /api/config/delete, in both servers.
DeleteConfig ==
    /\ configFile.exists
    /\ configFile' = ch_delete_config(configFile)
    /\ lastResp' = Response("DELETE /api/config/delete", TRUE, EmptyDict)
    /\ UNCHANGED <<vaultVars, defaultCfg, server, notCfg>>

\* --------------------------------- user_server.py: config endpoints

\* GET /api/config/load: what config_handler.load_config returned, as it is.
UserLoad ==
    /\ server = "user"
    /\ lastResp' = Response("GET /api/config/load", TRUE, ch_load_config(configFile, defaultCfg))
    /\ UNCHANGED <<vaultVars, configFile, defaultCfg, server, notCfg>>

\* POST /api/config/save and PUT /api/config/replace
UserSaveOrReplace(endpoint, config_update) ==
    LET s == ch_save_config(config_update)
    IN  /\ server = "user"
        /\ configFile' = s.file
        /\ lastResp' = Response(endpoint, TRUE, s.ret)
        /\ UNCHANGED <<vaultVars, defaultCfg, server, notCfg>>

UserSave(config_update) == UserSaveOrReplace("POST /api/config/save", config_update)

UserReplace(config_update) == UserSaveOrReplace("PUT /api/config/replace", config_update)

\* PATCH /api/config/update
UserUpdate(config_update) ==
    LET u == ch_update_config(config_update, configFile, defaultCfg)
    IN  /\ server = "user"
        /\ configFile' = u.file
        /\ defaultCfg' = u.dflt
        /\ lastResp' = Response("PATCH /api/config/update", TRUE, u.ret)
        /\ UNCHANGED <<vaultVars, server, notCfg>>

\* ------------------------------------------- vault calls, one at a time

Usernames == {"admin", "bob"}

\* The user_data dicts update_user is called with.
UserUpdates == { [password_hash |-> "h1"], [is_active |-> FALSE] }

\* (written: save_users_data wrote the file; ret: what the call returned)
NoMut == [op |-> "none", token |-> "", before |-> Empty, written |-> FALSE, ret |-> FALSE]

notVault == <<configFile, defaultCfg, lastResp, server, proc, gitVars>>

SaveToken(t) ==
    LET r == save_github_token(t, usersFile, keyState)
    IN  /\ usersFile' = r.file
        /\ keyState' = r.ks
        /\ lastMut' = [op |-> "save", token |-> t, before |-> get_github_token(usersFile, keyState).ret,
                        written |-> TRUE, ret |-> r.ret]
        /\ UNCHANGED notVault

\* save_github_token while USERS_FILE cannot be written
SaveTokenUnwritten(t) ==
    LET r == save_github_token_unwritten(t, usersFile, keyState)
    IN  /\ usersFile' = r.file
        /\ keyState' = r.ks
        /\ lastMut' = [op |-> "save", token |-> t, before |-> get_github_token(usersFile, keyState).ret,
                        written |-> FALSE, ret |-> r.ret]
        /\ UNCHANGED notVault

DeleteToken ==
    LET r == delete_github_token(usersFile, keyState)
    IN  /\ usersFile' = r.file
        /\ keyState' = r.ks
        /\ lastMut' = [op |-> "delete", token |-> "", before |-> get_github_token(usersFile, keyState).ret,
                        written |-> TRUE, ret |-> r.ret]
        /\ UNCHANGED notVault

UpdateUser(username, user_data) ==
    LET r == update_user(username, user_data, usersFile, keyState)
    IN  /\ usersFile' = r.file
        /\ keyState' = r.ks
        /\ UNCHANGED <<lastMut, notVault>>

DeleteUser(username) ==
    LET r == delete_user(username, usersFile, keyState)
    IN  /\ usersFile' = r.file
        /\ keyState' = r.ks
        /\ UNCHANGED <<lastMut, notVault>>

CreateUser(username, password_hash) ==
    LET r == create_user(username, password_hash, usersFile, keyState)
    IN  /\ usersFile' = r.file
        /\ keyState' = r.ks
        /\ UNCHANGED <<lastMut, notVault>>

\* ------------------------------ vault calls, interleaved step by step

Threads == {"t1", "t2"}

Idle == [pc |-> "idle", data |-> DefaultData, token |-> ""]

notProc == <<configFile, defaultCfg, lastResp, server, gitVars>>

\* save_github_token, line 330: data = decrypt_data()
SaveTokenRead(p, t) ==
    LET d == decrypt_data(usersFile, keyState)
    IN  /\ proc[p].pc = "idle"
        /\ proc' = [proc EXCEPT ![p] = [pc |-> "save_read", data |-> d.data, token |-> t]]
        /\ keyState' = d.ks
        /\ UNCHANGED <<usersFile, lastMut, notProc>>

\* save_github_token, lines 331-337: encrypt the token into data
SaveTokenEncrypt(p) ==
    LET m == save_github_token_modify(proc[p].data, proc[p].token, keyState)
    IN  /\ proc[p].pc = "save_read"
        /\ proc' = [proc EXCEPT ![p].pc = "save_modified", ![p].data = m.data]
        /\ keyState' = m.ks
        /\ UNCHANGED <<usersFile, lastMut, notProc>>

\* save_github_token, line 339: save_users_data(data)
SaveTokenWrite(p) ==
    LET s == save_users_data(proc[p].data, keyState)
    IN  /\ proc[p].pc = "save_modified"
        /\ usersFile' = s.file
        /\ keyState' = s.ks
        /\ lastMut' = [op |-> "save", token |-> proc[p].token,
                        before |-> get_github_token(usersFile, keyState).ret,
                        written |-> TRUE, ret |-> TRUE]
        /\ proc' = [proc EXCEPT ![p] = Idle]
        /\ UNCHANGED notProc

\* update_user, lines 173-188: decrypt_data() and the change in memory
UpdateUserRead(p, username, user_data) ==
    LET d == decrypt_data(usersFile, keyState)
    IN  /\ proc[p].pc = "idle"
        /\ proc' = [proc EXCEPT ![p] = [pc |-> "update_modified",
                                        data |-> update_user_modify(d.data, username, user_data),
                                        token |-> ""]]
        /\ keyState' = d.ks
        /\ UNCHANGED <<usersFile, lastMut, notProc>>

\* update_user, line 189: save_users_data(data)
UpdateUserWrite(p) ==
    LET s == save_users_data(proc[p].data, keyState)
    IN  /\ proc[p].pc = "update_modified"
        /\ usersFile' = s.file
        /\ keyState' = s.ks
        /\ proc' = [proc EXCEPT ![p] = Idle]
        /\ UNCHANGED <<lastMut, notProc>>

\* The environment: the key file or the salt file is lost (deleted, or the data
\* directory restored without it), so the next load_encryption_key regenerates both.
KeyLoss(f) ==
    /\ keyState.count < MaxKeys
    /\ \/ f = "key" /\ keyState.key_file /\ keyState' = [keyState EXCEPT !.key_file = FALSE]
       \/ f = "salt" /\ keyState.salt # 0 /\ keyState' = [keyState EXCEPT !.salt = 0]
    /\ UNCHANGED <<usersFile, lastMut, proc, notProc>>

\* --------------------------------------- main_advanced.py: git sync, helpers

\* The filesToSync string of the configuration, and the built-in list (cut to
\* its first two entries) used when none is configured.
FILES_TO_SYNC == "./a/b.json\n\nc.json"

DEFAULT_FILES_TO_SYNC == "app_data/config/app_config.json\napp_data/config/accounts.json"

\* Two more filesToSync strings: one with a repeated entry and a line of
\* blanks, one with an entry that leads out of the directory it is joined to.
FILES_REPEATED == "c.json\n \n./a/b.json\nc.json"

FILES_ESCAPING == "../x.json\nc.json"

\* The relative paths os.path.join(base, path) takes out of base. A file of the
\* real tree or of a staging directory under such a path lies beside the
\* directory, not in it.
Outside == {"../x.json"}

\* str.split('\n') of the strings above.
SplitLines(s) ==
    IF s = FILES_TO_SYNC THEN <<"./a/b.json", "", "c.json">>
    ELSE IF s = FILES_REPEATED THEN <<"c.json", " ", "./a/b.json", "c.json">>
    ELSE IF s = FILES_ESCAPING THEN <<"../x.json", "c.json">>
    ELSE IF s = DEFAULT_FILES_TO_SYNC
         THEN <<"app_data/config/app_config.json", "app_data/config/accounts.json">>
         ELSE <<s>>

\* [f.strip() for f in files_to_sync.split('\n') if f.strip()]
parse_file_list(files_to_sync) ==
    LET lines == SplitLines(files_to_sync)
        kept == SelectSeq(lines, LAMBDA f : Truthy(Strip(f)))
    IN  [i \in DOMAIN kept |-> Strip(kept[i])]

\* file_path[2:] if file_path.startswith('./') else file_path
clean_file_path(file_path) == IF file_path = "./a/b.json" THEN "a/b.json" ELSE file_path

CleanPaths(file_list) == { clean_file_path(file_list[i]) : i \in DOMAIN file_list }

\* The head of git_pull and git_push: filesToSync from the root of the config,
\* else from its github section, else the built-in list.
files_to_sync_of(config_data) ==
    LET root == IF config_data # EmptyDict THEN Get(config_data, "filesToSync", "") ELSE ""
        gh == IF ~Truthy(root) /\ config_data # EmptyDict /\ "github" \in DOMAIN config_data
              THEN Get(config_data["github"], "filesToSync", "")
              ELSE root
    IN  IF Truthy(gh) THEN gh ELSE DEFAULT_FILES_TO_SYNC

\* The fields get_github_config requires besides the token.
RequiredFields == {"githubUsername", "repositoryUrl", "branchName", "localPath"}

\* get_github_config: the github section of the loaded config with the vault's
\* token put in as githubToken, or None (EmptyDict) when the section, the token
\* or a required field is missing. The token is what get_github_token returned.
get_github_config(cf, dflt, file, ks) ==
    LET l == load_config(cf, dflt)
        config == l.ret
        has_github == config # EmptyDict /\ "github" \in DOMAIN config
                      /\ config["github"] # EmptyDict
        t == get_github_token(file, ks)
        complete == \A f \in RequiredFields : Truthy(Get(config["github"], f, ""))
    IN  IF ~has_github THEN [ret |-> EmptyDict, token |-> Empty, dflt |-> l.dflt, ks |-> ks]
        ELSE IF t.ret = Empty \/ ~complete
             THEN [ret |-> EmptyDict, token |-> Empty, dflt |-> l.dflt, ks |-> t.ks]
             ELSE [ret |-> config["github"], token |-> t.ret, dflt |-> l.dflt, ks |-> t.ks]

\* A staging copy that looks the paths up as they are written, "./" included.
create_repo_keeps_dot_slash(files_to_sync, real_tree, github_token) ==
    LET file_list == parse_file_list(files_to_sync)
        copied_files == SelectSeq(file_list, LAMBDA p : p \in DOMAIN real_tree)
        copied == { copied_files[i] : i \in DOMAIN copied_files }
    IN  [dir |-> [files |-> [p \in copied |-> real_tree[p]],
                  url_token |-> github_token,
                  head |-> "none"],
         copied_files |-> copied_files]

\* A staging copy that gives up on the whole list when one file is missing.
create_repo_all_or_nothing(files_to_sync, real_tree, github_token) ==
    LET file_list == parse_file_list(files_to_sync)
        cleaned == [i \in DOMAIN file_list |-> clean_file_path(file_list[i])]
        all_there == \A i \in DOMAIN cleaned : cleaned[i] \in DOMAIN real_tree
        copied_files == IF all_there THEN cleaned ELSE <<>>
        copied == { copied_files[i] : i \in DOMAIN copied_files }
    IN  [dir |-> [files |-> [p \in copied |-> real_tree[p]],
                  url_token |-> github_token,
                  head |-> "none"],
         copied_files |-> copied_files]

\* create_isolated_git_repo: a fresh directory holding copies of the listed files
\* that exist in the real tree, a new repository (no commit yet) and the remote
\* URL with the token in it. copied_files are the cleaned paths actually copied.
create_isolated_git_repo(files_to_sync, real_tree, github_token) ==
    LET file_list == parse_file_list(files_to_sync)
        cleaned == [i \in DOMAIN file_list |-> clean_file_path(file_list[i])]
        copied_files == SelectSeq(cleaned, LAMBDA p : p \in DOMAIN real_tree)
        copied == { copied_files[i] : i \in DOMAIN copied_files }
    IN  [dir |-> [files |-> [p \in copied |-> real_tree[p]],
                  url_token |-> github_token,
                  head |-> "none"],
         copied_files |-> copied_files]

\* sync_files_back_to_source: every listed file found in the staging directory
\* is copied over its place in the real tree; the others are skipped.
sync_files_back_to_source(dir_files, file_list, real_tree) ==
    LET found == CleanPaths(file_list) \cap DOMAIN dir_files
    IN  [tree |-> [p \in (DOMAIN real_tree) \cup found |->
                      IF p \in found THEN dir_files[p] ELSE real_tree[p]],
         synced |-> [p \in found |-> dir_files[p]]]

\* A cleanup that leaves the directory where it is.
rmtree_leaves_dir(dirs, temp_dir) == dirs

\* shutil.rmtree(temp_dir, ignore_errors=True) on a directory the process made.
rmtree(dirs, temp_dir) == Pop(dirs, temp_dir)

\* "if temp_dir and os.path.exists(temp_dir): shutil.rmtree(...)" of the finally blocks.
finally_cleanup(dirs, temp_dir) ==
    IF temp_dir # "None" /\ temp_dir \in DOMAIN dirs THEN rmtree(dirs, temp_dir) ELSE dirs

\* ------------------------------------- main_advanced.py: git_pull, git_push

\* The slots a sync call runs in; mkdtemp gives each running call a directory
\* of its own, named here after the slot.
Calls == {"c1", "c2"}

\* What the application writes into the synced files.
Writes == {<<"a/b.json", "v1">>, <<"a/b.json", "v2">>, <<"c.json", "v1">>}

\* The request body: absent, or a GitRequest with its own credentials.
NoRequest == [given |-> FALSE, github_token |-> Empty, branch_name |-> ""]

\* GitRequest's fields are required strings, which the empty string satisfies.
GitRequests ==
    {NoRequest,
     [given |-> TRUE, github_token |-> Plain("ghp_B"), branch_name |-> "main"],
     [given |-> TRUE, github_token |-> Empty, branch_name |-> "main"]}

\* Whether one of the push commands of a log went through.
Pushed(log) == \E i \in DOMAIN log : log[i].ok

NoResult == [status |-> 0, success |-> FALSE, message |-> "", error |-> ""]

\* A call's position and locals, and what it saw and did (complete: the
\* parameters the call runs with are all non-empty; again: the call before it was
\* a push that went through and the files staged now are the ones it left on
\* the remote branch; remote_seen, remote_files, branch_created, synced and
\* pushLog are kept for the properties).
IdleCall ==
    [pc |-> "idle", kind |-> "none", path |-> "none", complete |-> FALSE, again |-> FALSE,
     temp_dir |-> "None", steps |-> <<>>,
     file_list |-> <<>>, fetch_ok |-> FALSE, remote_seen |-> "unknown",
     remote_files |-> EmptyDict, branch_created |-> FALSE, synced |-> EmptyDict,
     pushLog |-> <<>>, result |-> NoResult]

Returned(rec, status, success, message, error) ==
    [rec EXCEPT !.pc = "done", !.file_list = <<>>, !.fetch_ok = FALSE, !.steps = <<>>,
                !.result = [status |-> status, success |-> success,
                            message |-> message, error |-> error]]

notGit == <<usersFile, configFile, lastResp, server, lastMut, proc, localRepo>>

\* The head of git_pull and git_push up to the return of create_isolated_git_repo:
\* the config path when get_github_config finds a configuration, the request
\* path when a body was sent, HTTP 400 otherwise. When the build raises, the
\* directory is removed by create_isolated_git_repo itself and the call ends
\* with HTTP 500.
GitStart(c, kind, request, build_ok) ==
    LET l == load_config(configFile, defaultCfg)
        g == get_github_config(configFile, l.dflt, usersFile, keyState)
        path == IF g.ret # EmptyDict THEN "config"
                ELSE IF request.given THEN "request" ELSE "none"
        token == IF path = "config" THEN g.token ELSE request.github_token
        r == create_isolated_git_repo(files_to_sync_of(l.ret), tree, token)
        rec == [IdleCall EXCEPT !.kind = kind, !.path = path,
                                !.complete = \/ path = "config"
                                             \/ /\ path = "request"
                                                /\ request.github_token # Empty
                                                /\ Truthy(request.branch_name),
                                !.again = /\ kind = "push" /\ path # "none" /\ build_ok
                                          /\ call[c].kind = "push" /\ call[c].pc = "done"
                                          /\ Pushed(call[c].pushLog)
                                          /\ remote.exists /\ remote.files = r.dir.files]
    IN  /\ call[c].pc \in {"idle", "done"}
        /\ keyState' = g.ks
        /\ defaultCfg' = g.dflt
        /\ IF path = "none"
           THEN /\ call' = [call EXCEPT ![c] = Returned(rec, 400, FALSE, "no_configuration", "")]
                /\ UNCHANGED stagingDirs
           ELSE IF ~build_ok
           THEN /\ stagingDirs' = rmtree(Put(stagingDirs, c, r.dir), c)
                /\ call' = [call EXCEPT ![c] = Returned(rec, 500, FALSE, "git_error", "build")]
           ELSE /\ stagingDirs' = Put(stagingDirs, c, r.dir)
                /\ call' = [call EXCEPT ![c] =
                               [rec EXCEPT !.pc = "built", !.temp_dir = c,
                                           !.file_list = r.copied_files]]
        /\ UNCHANGED <<tree, remote, notGit>>

GitPullStart(c, request, build_ok) == GitStart(c, "pull", request, build_ok)

GitPushStart(c, request, build_ok) == GitStart(c, "push", request, build_ok)

\* What the remote branch holds, as a call sees it.
RemoteFiles == IF remote.exists THEN remote.files ELSE EmptyDict

\* git_pull, config path, lines 1721-1769: delete the staged copies, fetch,
\* probe the branch with ls-remote, check it out. A missing branch and a failed
\* checkout return a failure; the finally block removes the directory.
GitPullRemoteConfig(c, fetch_net, ls_net) ==
    LET rec == call[c]
        dir == stagingDirs[rec.temp_dir]
        listed == { rec.file_list[i] : i \in DOMAIN rec.file_list }
        kept == [p \in (DOMAIN dir.files) \ listed |-> dir.files[p]]
        fetch_ok == fetch_net /\ remote.exists
        branch_found == ls_net /\ remote.exists
        seen == [rec EXCEPT !.fetch_ok = fetch_ok,
                            !.remote_seen = IF remote.exists THEN "present" ELSE "absent",
                            !.remote_files = RemoteFiles]
    IN  /\ rec.pc = "built" /\ rec.kind = "pull" /\ rec.path = "config"
        /\ IF branch_found /\ fetch_ok
           THEN /\ stagingDirs' = Put(stagingDirs, rec.temp_dir,
                                      [dir EXCEPT !.files = DictUpdate(kept, remote.files),
                                                  !.head = "remote"])
                /\ call' = [call EXCEPT ![c] = [seen EXCEPT !.pc = "checked_out"]]
           ELSE /\ stagingDirs' = finally_cleanup(stagingDirs, rec.temp_dir)
                /\ call' = [call EXCEPT ![c] =
                               IF branch_found
                               THEN Returned(seen, 200, FALSE, "checkout_failed", "checkout")
                               ELSE Returned(seen, 200, FALSE, "branch_does_not_exist", "")]
        /\ UNCHANGED <<tree, remote, keyState, defaultCfg, notGit>>

\* git_pull, request path, lines 1813-1820: fetch, "checkout -B <branch>
\* origin/<branch>", which fails without the fetched ref and when a staged copy
\* is in the way of a remote file, and then "checkout -b <branch>", whose result
\* is not looked at.
GitPullRemoteRequest(c, fetch_net) ==
    LET rec == call[c]
        dir == stagingDirs[rec.temp_dir]
        fetch_ok == fetch_net /\ remote.exists
        checkout_ok == fetch_ok /\ (DOMAIN dir.files) \cap (DOMAIN remote.files) = {}
    IN  /\ rec.pc = "built" /\ rec.kind = "pull" /\ rec.path = "request"
        /\ stagingDirs' = Put(stagingDirs, rec.temp_dir,
                              IF checkout_ok
                              THEN [dir EXCEPT !.files = DictUpdate(dir.files, remote.files),
                                               !.head = "remote"]
                              ELSE dir)
        /\ call' = [call EXCEPT ![c] =
                       [rec EXCEPT !.pc = "checked_out", !.fetch_ok = fetch_ok,
                                   !.remote_seen = IF remote.exists THEN "present" ELSE "absent",
                                   !.remote_files = RemoteFiles,
                                   !.branch_created = ~checkout_ok]]
        /\ UNCHANGED <<tree, remote, keyState, defaultCfg, notGit>>

\* git_pull, both paths: sync_files_back_to_source, the success response, and
\* the finally block.
GitPullSync(c) ==
    LET rec == call[c]
        dir == stagingDirs[rec.temp_dir]
        s == sync_files_back_to_source(dir.files, rec.file_list, tree)
    IN  /\ rec.pc = "checked_out" /\ rec.kind = "pull"
        /\ tree' = s.tree
        /\ stagingDirs' = finally_cleanup(stagingDirs, rec.temp_dir)
        /\ call' = [call EXCEPT ![c] =
                       Returned([rec EXCEPT !.synced = s.synced], 200, TRUE, "pulled", "")]
        /\ UNCHANGED <<remote, keyState, defaultCfg, notGit>>

\* The git commands git_push runs between the staging copy and the first push,
\* in the order of the source: the config path runs "checkout -B" before the
\* pull, the request path has no checkout.
push_commands(path, fetch_ok) ==
    <<"add", "commit", "fetch">>
        \o (IF path = "config" THEN <<"checkout -B">> ELSE <<>>)
        \o (IF fetch_ok THEN <<"pull">> ELSE <<>>)

\* git_push up to the cascade: "git add .", commit (fails when nothing is
\* staged), "git fetch origin", on the config path "checkout -B", and when the
\* fetch succeeded "git pull origin <branch>", which merges only into a
\* repository without a commit of its own (the histories are unrelated).
\* On the request path a failed commit has no "output" key: the KeyError ends
\* the call with HTTP 500, through the finally block.
GitPushCommit(c, fetch_net, pull_net) ==
    LET rec == call[c]
        dir == stagingDirs[rec.temp_dir]
        commit_ok == DOMAIN dir.files # {}
        fetch_ok == fetch_net
        pull_ok == fetch_ok /\ pull_net /\ remote.exists /\ ~commit_ok
    IN  /\ rec.pc = "built" /\ rec.kind = "push"
        /\ IF rec.path = "request" /\ ~commit_ok
           THEN /\ stagingDirs' = finally_cleanup(stagingDirs, rec.temp_dir)
                /\ call' = [call EXCEPT ![c] = Returned(rec, 500, FALSE, "git_error", "KeyError")]
           ELSE /\ stagingDirs' = Put(stagingDirs, rec.temp_dir,
                                      [dir EXCEPT !.files = IF pull_ok THEN remote.files ELSE dir.files,
                                                  !.head = IF commit_ok THEN "local"
                                                           ELSE IF pull_ok THEN "remote" ELSE "none"])
                /\ call' = [call EXCEPT ![c] =
                               [rec EXCEPT !.pc = "committed", !.fetch_ok = fetch_ok,
                                           !.steps = push_commands(rec.path, fetch_ok),
                                           !.remote_seen = IF remote.exists THEN "present" ELSE "absent"]]
        /\ UNCHANGED <<tree, remote, keyState, defaultCfg, notGit>>

\* The push strategies in the order of the source.
Strategies == <<"push", "set-upstream", "force", "force-current">>

\* Whether git accepts a push from the staging repository: there must be a
\* commit, and without --force the remote branch must be new or an ancestor.
Accepts(dir, forced) ==
    /\ dir.head # "none"
    /\ forced \/ ~remote.exists \/ dir.head = "remote"

\* A cascade that goes on to the forced push after --set-upstream went through.
cascade_forces_after_upstream(dir, net, show_ok) ==
    LET r1 == net[1] /\ Accepts(dir, FALSE)
        r2 == net[2] /\ Accepts(dir, FALSE)
        r3 == net[3] /\ Accepts(dir, TRUE)
        a1 == <<[strategy |-> Strategies[1], ok |-> r1]>>
        a3 == a1 \o <<[strategy |-> Strategies[2], ok |-> r2], [strategy |-> Strategies[3], ok |-> r3]>>
    IN  IF r1 THEN [log |-> a1, raised |-> FALSE]
        ELSE [log |-> a3, raised |-> ~r2 /\ ~r3]

\* The cascade of the config path, lines 1948-1981: each push runs only when
\* the one before failed; the fourth needs "git branch --show-current" to succeed.
\* net[i] says whether the network and the server let attempt i through.
cascade_config(dir, net, show_ok) ==
    LET r1 == net[1] /\ Accepts(dir, FALSE)
        r2 == net[2] /\ Accepts(dir, FALSE)
        r3 == net[3] /\ Accepts(dir, TRUE)
        r4 == net[4] /\ Accepts(dir, TRUE)
        a1 == <<[strategy |-> Strategies[1], ok |-> r1]>>
        a2 == a1 \o <<[strategy |-> Strategies[2], ok |-> r2]>>
        a3 == a2 \o <<[strategy |-> Strategies[3], ok |-> r3]>>
        a4 == a3 \o <<[strategy |-> Strategies[4], ok |-> r4]>>
    IN  IF r1 THEN [log |-> a1, raised |-> FALSE]
        ELSE IF r2 THEN [log |-> a2, raised |-> FALSE]
        ELSE IF r3 THEN [log |-> a3, raised |-> FALSE]
        ELSE IF ~show_ok THEN [log |-> a3, raised |-> TRUE]
        ELSE [log |-> a4, raised |-> ~r4]

\* The cascade of the request path, lines 2034-2040: three pushes, and the
\* result of the third is not looked at.
cascade_request(dir, net) ==
    LET r1 == net[1] /\ Accepts(dir, FALSE)
        r2 == net[2] /\ Accepts(dir, FALSE)
        r3 == net[3] /\ Accepts(dir, TRUE)
        a1 == <<[strategy |-> Strategies[1], ok |-> r1]>>
        a2 == a1 \o <<[strategy |-> Strategies[2], ok |-> r2]>>
        a3 == a2 \o <<[strategy |-> Strategies[3], ok |-> r3]>>
    IN  IF r1 THEN [log |-> a1, raised |-> FALSE]
        ELSE IF r2 THEN [log |-> a2, raised |-> FALSE]
        ELSE [log |-> a3, raised |-> FALSE]

\* A push that ends by copying the staging files back over the real tree.
GitPushCascade_syncs_back(c, net, show_ok) ==
    LET rec == call[c]
        dir == stagingDirs[rec.temp_dir]
        r == IF rec.path = "config" THEN cascade_config(dir, net, show_ok)
             ELSE cascade_request(dir, net)
        logged == [rec EXCEPT !.pushLog = r.log]
    IN  /\ rec.pc = "committed" /\ rec.kind = "push"
        /\ remote' = IF Pushed(r.log) THEN [remote EXCEPT !.exists = TRUE, !.files = dir.files]
                     ELSE remote
        /\ tree' = DictUpdate(tree, dir.files)
        /\ stagingDirs' = finally_cleanup(stagingDirs, rec.temp_dir)
        /\ call' = [call EXCEPT ![c] =
                       IF r.raised
                       THEN Returned(logged, 500, FALSE, "git_error",
                                     r.log[Len(r.log)].strategy)
                       ELSE Returned(logged, 200, TRUE, "pushed", "")]
        /\ UNCHANGED <<keyState, defaultCfg, notGit>>

\* git_push from the first push to the return: the cascade, then the success
\* response or the exception (HTTP 500 with the error of the last push), and
\* the finally block. An accepted push makes the remote branch hold the
\* staging repository's files.
GitPushCascade(c, net, show_ok) ==
    LET rec == call[c]
        dir == stagingDirs[rec.temp_dir]
        r == IF rec.path = "config" THEN cascade_config(dir, net, show_ok)
             ELSE cascade_request(dir, net)
        logged == [rec EXCEPT !.pushLog = r.log]
    IN  /\ rec.pc = "committed" /\ rec.kind = "push"
        /\ remote' = IF Pushed(r.log) THEN [remote EXCEPT !.exists = TRUE, !.files = dir.files]
                     ELSE remote
        /\ stagingDirs' = finally_cleanup(stagingDirs, rec.temp_dir)
        /\ call' = [call EXCEPT ![c] =
                       IF r.raised
                       THEN Returned(logged, 500, FALSE, "git_error",
                                     r.log[Len(r.log)].strategy)
                       ELSE Returned(logged, 200, TRUE, "pushed", "")]
        /\ UNCHANGED <<tree, keyState, defaultCfg, notGit>>

\* POST /api/git/create-branch: "git remote set-url origin <url with token>" in
\* the configured local path (it fails when that is no repository with an
\* origin), then fetch, "checkout -b" and "push -u"; nothing resets the URL.
GitCreateBranch(branch_name, push_net) ==
    LET g == IF Truthy(branch_name)
             THEN get_github_config(configFile, defaultCfg, usersFile, keyState)
             ELSE [ret |-> EmptyDict, token |-> Empty, dflt |-> defaultCfg, ks |-> keyState]
        pushed == push_net /\ localRepo.origin
    IN  /\ keyState' = g.ks
        /\ defaultCfg' = g.dflt
        /\ IF g.ret = EmptyDict
           THEN UNCHANGED <<localRepo, remote>>
           ELSE /\ localRepo' = IF localRepo.origin
                                THEN [localRepo EXCEPT !.url_token = g.token,
                                                       !.branch = branch_name]
                                ELSE localRepo
                /\ remote' = IF pushed
                             THEN [remote EXCEPT !.others = @ \cup {branch_name}]
                             ELSE remote
        /\ UNCHANGED <<usersFile, configFile, lastResp, server, lastMut, proc, tree, stagingDirs, call>>

\* The application writes or removes one of the synced files.
LocalFileWrite(p, v) ==
    /\ Get(tree, p, "") # v
    /\ tree' = Put(tree, p, v)
    /\ UNCHANGED <<vaultVars, cfgVars, lastMut, proc, remote, localRepo, stagingDirs, call>>

LocalFileRemove(p) ==
    /\ p \in DOMAIN tree
    /\ tree' = Pop(tree, p)
    /\ UNCHANGED <<vaultVars, cfgVars, lastMut, proc, remote, localRepo, stagingDirs, call>>

\* ------------------------------------------------------ specifications

vars == <<keyState, usersFile, configFile, defaultCfg, lastResp, server, lastMut, proc, gitVars>>

\* The files and repositories before the first sync.
InitSync ==
    /\ tree = [p \in {"a/b.json"} |-> "v1"]
    /\ remote = [exists |-> FALSE, files |-> EmptyDict, others |-> {}]
    /\ stagingDirs = EmptyDict
    /\ call = [c \in Calls |-> IdleCall]

\* A fresh installation: no key, salt, users or configuration file.
Init ==
    /\ InitSync
    /\ localRepo = [origin |-> TRUE, url_token |-> Empty, branch |-> "main"]
    /\ keyState = NoKey
    /\ usersFile = [exists |-> FALSE, key |-> 0, doc |-> DefaultData]
    /\ configFile = NoFile
    /\ defaultCfg = DEFAULT_CONFIG
    /\ lastResp = NoResponse
    /\ server \in {"main", "user"}
    /\ lastMut = NoMut
    /\ proc = [p \in Threads |-> Idle]

\* The configuration endpoints of one server, one request at a time.
NextConfig ==
    \/ \E d \in ConfigDocs : MainPostApiConfig(d)
    \/ \E d \in ConfigDocs : MainPutApiConfig(d)
    \/ MainLoad
    \/ \E d \in ConfigDocs : MainSave(d)
    \/ \E d \in ConfigDocs : MainReplace(d)
    \/ \E d \in ConfigDocs : MainUpdate(d)
    \/ DeleteConfig
    \/ UserLoad
    \/ \E d \in ConfigDocs : UserSave(d)
    \/ \E d \in ConfigDocs : UserReplace(d)
    \/ \E d \in ConfigDocs : UserUpdate(d)


SpecConfig == Init /\ [][NextConfig]_vars

\* The vault and user calls, one at a time, with the key files left alone.
NextVault ==
    \/ \E t \in Tokens \cup {" "} : SaveToken(t)
    \/ DeleteToken
    \/ \E u \in Usernames, d \in UserUpdates : UpdateUser(u, d)
    \/ \E u \in Usernames : DeleteUser(u)
    \/ \E u \in Usernames : CreateUser(u, "h2")

InitMain == Init /\ server = "main"

\* The same calls, with saves that meet a file they cannot write.
NextVaultIO ==
    \/ NextVault
    \/ \E t \in Tokens : SaveTokenUnwritten(t)

SpecVaultIO == InitMain /\ [][NextVaultIO]_vars

SpecVault == InitMain /\ [][NextVault]_vars

\* The same calls, one at a time, with the key file or the salt file lost
\* between two of them.
NextVaultLoss ==
    \/ NextVault
    \/ \E f \in {"key", "salt"} : KeyLoss(f)

SpecVaultLoss == InitMain /\ [][NextVaultLoss]_vars

\* Two threads running vault calls step by step, and key loss.
NextVaultConc ==
    \/ \E p \in Threads, t \in Tokens : SaveTokenRead(p, t)
    \/ \E p \in Threads : SaveTokenEncrypt(p)
    \/ \E p \in Threads : SaveTokenWrite(p)
    \/ \E p \in Threads : UpdateUserRead(p, "bob", [password_hash |-> "h1"])
    \/ \E p \in Threads : UpdateUserWrite(p)
    \/ \E f \in {"key", "salt"} : KeyLoss(f)

SpecVaultConc == InitMain /\ [][NextVaultConc]_vars

\* The configuration a sync runs with, as POST /api/config/save stores it.
SyncConfig ==
    [app |-> AppSection,
     github |-> [githubUsername |-> "u", repositoryUrl |-> "https://host/repo",
                 branchName |-> "main", localPath |-> ".", filesToSync |-> FILES_TO_SYNC]]

\* The main server with the sync configured, and the token stored or not.
InitGit ==
    /\ InitSync
    /\ localRepo \in { [origin |-> o, url_token |-> Empty, branch |-> "main"] : o \in BOOLEAN }
    /\ \E stored \in BOOLEAN :
          LET fresh == [exists |-> FALSE, key |-> 0, doc |-> DefaultData]
              v == IF stored THEN save_github_token("ghp_A", fresh, NoKey)
                   ELSE [file |-> fresh, ks |-> NoKey]
          IN  usersFile = v.file /\ keyState = v.ks
    /\ configFile = ch_save_config(SyncConfig).file
    /\ defaultCfg = DEFAULT_CONFIG
    /\ lastResp = NoResponse
    /\ server = "main"
    /\ lastMut = NoMut
    /\ proc = [p \in Threads |-> Idle]

Nets == [1..4 -> BOOLEAN]

\* Sync calls one at a time, create-branch, and the application's own file writes.
NextGit ==
    \/ \E r \in GitRequests, b \in BOOLEAN : GitPullStart("c1", r, b)
    \/ \E f, l \in BOOLEAN : GitPullRemoteConfig("c1", f, l)
    \/ \E f \in BOOLEAN : GitPullRemoteRequest("c1", f)
    \/ GitPullSync("c1")
    \/ \E r \in GitRequests, b \in BOOLEAN : GitPushStart("c1", r, b)
    \/ \E f, l \in BOOLEAN : GitPushCommit("c1", f, l)
    \/ \E n \in Nets, s \in BOOLEAN : GitPushCascade("c1", n, s)
    \/ \E n \in BOOLEAN : GitCreateBranch("dev", n)
    \/ \E w \in Writes : LocalFileWrite(w[1], w[2])
    \/ \E p \in CleanPaths(parse_file_list(FILES_TO_SYNC)) : LocalFileRemove(p)

SpecGit == InitGit /\ [][NextGit]_vars

\* The allow-lists and the real trees the staging copy is tried on.
PathLists == {FILES_TO_SYNC, FILES_REPEATED, FILES_ESCAPING}

PathTrees ==
    { [p \in S |-> "v1"] :
        S \in {{}, {"a/b.json"}, {"a/b.json", "c.json"}, {"c.json", "../x.json"}} }

\* The main server with one of the allow-lists configured over one of the trees.
InitPaths ==
    /\ tree \in PathTrees
    /\ remote = [exists |-> FALSE, files |-> EmptyDict, others |-> {}]
    /\ stagingDirs = EmptyDict
    /\ call = [c \in Calls |-> IdleCall]
    /\ localRepo = [origin |-> FALSE, url_token |-> Empty, branch |-> "main"]
    /\ \E stored \in BOOLEAN :
          LET fresh == [exists |-> FALSE, key |-> 0, doc |-> DefaultData]
              v == IF stored THEN save_github_token("ghp_A", fresh, NoKey)
                   ELSE [file |-> fresh, ks |-> NoKey]
          IN  usersFile = v.file /\ keyState = v.ks
    /\ \E fs \in PathLists :
          configFile = ch_save_config([SyncConfig EXCEPT !.github.filesToSync = fs]).file
    /\ defaultCfg = DEFAULT_CONFIG
    /\ lastResp = NoResponse
    /\ server = "main"
    /\ lastMut = NoMut
    /\ proc = [p \in Threads |-> Idle]

\* Sync calls one at a time over a tree nothing else writes to.
NextPaths ==
    \/ \E r \in GitRequests, b \in BOOLEAN : GitPullStart("c1", r, b)
    \/ \E f, l \in BOOLEAN : GitPullRemoteConfig("c1", f, l)
    \/ \E f \in BOOLEAN : GitPullRemoteRequest("c1", f)
    \/ GitPullSync("c1")
    \/ \E r \in GitRequests, b \in BOOLEAN : GitPushStart("c1", r, b)
    \/ \E f, l \in BOOLEAN : GitPushCommit("c1", f, l)
    \/ \E n \in Nets, s \in BOOLEAN : GitPushCascade("c1", n, s)

SpecPaths == InitPaths /\ [][NextPaths]_vars

\* Two sync calls running step by step against the same tree and remote.
NextGitConc ==
    \/ \E c \in Calls, r \in GitRequests, b \in BOOLEAN : GitPullStart(c, r, b)
    \/ \E c \in Calls, f, l \in BOOLEAN : GitPullRemoteConfig(c, f, l)
    \/ \E c \in Calls, f \in BOOLEAN : GitPullRemoteRequest(c, f)
    \/ \E c \in Calls : GitPullSync(c)
    \/ \E c \in Calls, r \in GitRequests, b \in BOOLEAN : GitPushStart(c, r, b)
    \/ \E c \in Calls, f, l \in BOOLEAN : GitPushCommit(c, f, l)
    \/ \E c \in Calls, n \in Nets, s \in BOOLEAN : GitPushCascade(c, n, s)

SpecGitConc == InitGit /\ [][NextGitConc]_vars

\* ---------------------------------------------------- C1, C2: no leak

\* The strings of a two-level document.
DocValues(doc) == UNION { { doc[sec][k] : k \in DOMAIN doc[sec] } : sec \in DOMAIN doc }

\* C1: whatever save_config and update_config were given, the persisted
\* configuration file holds no githubToken field and no token value.
C1_FileNeverHoldsToken ==
    configFile.exists =>
        /\ \A sec \in DOMAIN configFile.doc : "githubToken" \notin DOMAIN configFile.doc[sec]
        /\ DocValues(configFile.doc) \cap Tokens = {}

\* update_config was given a document with github.githubToken while the file was
\* absent (the token is still in DEFAULT_CONFIG, which deep_update worked on),
\* and the file it wrote exists.
C1_Witness ==
    /\ server = "user"
    /\ lastResp.endpoint = "PATCH /api/config/update"
    /\ configFile.exists
    /\ Get(defaultCfg["github"], "githubToken", "") \in Tokens

\* C2: no response of a configuration endpoint carries a raw token in the
\* github section of its config, as githubToken or as token. (The claim asks
\* for more, that githubToken is not even present; this is the part of it
\* that is about secrets.)
C2_NoRawTokenInResponse ==
    "github" \in DOMAIN lastResp.config =>
        /\ Get(lastResp.config["github"], "githubToken", "") \notin Tokens
        /\ Get(lastResp.config["github"], "token", "") \notin Tokens


\* ------------------------------------------------- C4, C5: the vault

\* The users file, if there is one, decrypts under the key on disk.
VaultReadable ==
    usersFile.exists => (keyState.key_file /\ keyState.salt # 0 /\ usersFile.key = keyState.salt)

\* C4: on a readable vault, get_github_token returns the token of the last
\* save_github_token, and after delete_github_token it returns "" and
\* github_token_exists is false.
C4_VaultIsRegister ==
    VaultReadable =>
        /\ lastMut.op = "save" =>
              get_github_token(usersFile, keyState).ret = Plain(lastMut.token)
        /\ lastMut.op = "delete" =>
              /\ get_github_token(usersFile, keyState).ret = Empty
              /\ ~github_token_exists(usersFile, keyState).ret

\* A save has overwritten another token, with a second user in the document.
C4_Witness ==
    /\ lastMut = [op |-> "save", token |-> "ghp_B", before |-> Plain("ghp_A"),
                  written |-> TRUE, ret |-> TRUE]
    /\ VaultReadable
    /\ Len(usersFile.doc["users"]) = 2

\* The token string as stored, Empty when the document has none or cannot be read.
StoredTokenString ==
    IF usersFile.exists /\ usersFile.key = load_encryption_key(keyState).key
    THEN Get(Get(usersFile.doc, "github_token", EmptyDict), "token", Empty)
    ELSE Empty

\* C5: get_github_token returns "" whenever no token is stored, the document
\* cannot be decrypted, or the stored token string cannot be decrypted.
C5_GetTokenEmptyOnFailure ==
    (\/ StoredTokenString = Empty
     \/ StoredTokenString.enc # load_encryption_key(keyState).key)
    => get_github_token(usersFile, keyState).ret = Empty


\* ------------------------------------------------- C3: token on disk

NoCallRunning == \A c \in Calls : call[c].pc \in {"idle", "done"}

\* A token string that is not empty and not ciphertext.
IsPlaintextToken(t) == t.enc = 0 /\ Truthy(t.txt)

\* C3: when no operation is running, no file outside the vault holds the
\* plaintext token: no staging repository is left with it in its remote URL, the
\* repository at the local path has none in its remote URL, and the
\* configuration file has none.
C3_NoPlaintextTokenOutsideVault ==
    NoCallRunning =>
        /\ \A d \in DOMAIN stagingDirs : ~IsPlaintextToken(stagingDirs[d].url_token)
        /\ ~IsPlaintextToken(localRepo.url_token)
        /\ configFile.exists => DocValues([github |-> Get(configFile.doc, "github", EmptyDict)]) \cap Tokens = {}

\* ------------------------------------------------- C6: staging cleanup

\* C6: once a git_pull or git_push call has returned, however it ended and
\* whatever the other call is doing, its staging directory is not on disk.
C6_StagingDirGoneAfterReturn ==
    \A c \in Calls : call[c].pc \in {"idle", "done"} => c \notin DOMAIN stagingDirs

\* A push has ended in the exception after its cascade while the other call, a
\* pull, still holds its own staging directory.
C6_Witness ==
    /\ call["c1"].pc = "done" /\ call["c1"].kind = "push"
    /\ call["c1"].result.status = 500 /\ call["c1"].pushLog # <<>>
    /\ call["c2"].pc = "checked_out" /\ "c2" \in DOMAIN stagingDirs
    /\ "c1" \notin DOMAIN stagingDirs

\* ------------------------------------------------- C7, C8: the cascade

\* C7: the pushes a call has run are an initial part of plain push,
\* --set-upstream, --force, --force <current>:<branch>, in that order, and all
\* but the last one failed.
C7_CascadeOrder ==
    \A c \in Calls :
        LET log == call[c].pushLog
        IN  /\ Len(log) <= Len(Strategies)
            /\ \A i \in DOMAIN log :
                  /\ log[i].strategy = Strategies[i]
                  /\ i < Len(log) => ~log[i].ok

\* The plain push failed, --set-upstream went through, and the call returned success.
C7_Witness ==
    /\ call["c1"].pc = "done" /\ call["c1"].path = "config"
    /\ call["c1"].pushLog = <<[strategy |-> "push", ok |-> FALSE],
                              [strategy |-> "set-upstream", ok |-> TRUE]>>
    /\ call["c1"].result.success

\* C8: a returned git_push reports success only if one of its pushes went
\* through, and when all the pushes it ran failed it ends in a hard failure
\* carrying the error of the last one.
C8_SuccessOnlyIfPushed ==
    \A c \in Calls :
        (call[c].pc = "done" /\ call[c].kind = "push" /\ call[c].pushLog # <<>>) =>
            LET log == call[c].pushLog
                res == call[c].result
            IN  /\ res.success => Pushed(log)
                /\ ~Pushed(log) => (/\ ~res.success
                                    /\ res.status = 500
                                    /\ res.error = log[Len(log)].strategy)

\* ------------------------------------------------- C9, C10: pull

\* C9: a git_pull that reported success on the config path has copied every
\* allow-listed file the remote branch held into the real tree, with the remote
\* content, whether or not the file was in the tree before.
C9_PullCopiesEveryRemoteFile ==
    \A c \in Calls :
        (/\ call[c].pc = "done" /\ call[c].kind = "pull"
         /\ call[c].path = "config" /\ call[c].result.success) =>
            \A p \in CleanPaths(parse_file_list(FILES_TO_SYNC)) \cap DOMAIN call[c].remote_files :
                /\ p \in DOMAIN call[c].synced
                /\ call[c].synced[p] = call[c].remote_files[p]

\* C10: a git_pull that met no remote branch has failed with the "branch does
\* not exist" error and has created no branch.
C10_PullFailsWithoutRemoteBranch ==
    \A c \in Calls :
        (call[c].pc = "done" /\ call[c].kind = "pull" /\ call[c].remote_seen = "absent") =>
            /\ ~call[c].result.success
            /\ call[c].result.message = "branch_does_not_exist"
            /\ ~call[c].branch_created


\* ------------------------------------------------- C11: missing parameters

\* C11: a git_pull or git_push whose repository parameters are missing or
\* empty has returned a client error without creating a staging directory,
\* running a push or writing to the real tree.
C11_ClientErrorWhenParamsMissing ==
    \A c \in Calls :
        (call[c].kind # "none" /\ ~call[c].complete) =>
            /\ call[c].pc = "done"
            /\ call[c].result.status = 400
            /\ call[c].temp_dir = "None"
            /\ call[c].pushLog = <<>>
            /\ call[c].synced = EmptyDict


\* ------------------------------------------------- C12: unsynchronised writers

\* C12: the write that ends save_github_token or update_user replaces the whole
\* document with what the caller computed from its own earlier read, whatever
\* the document holds by then: nothing orders the writers.
C12_WritersOverwriteUnsynchronised ==
    [][\A p \in Threads :
          (proc[p].pc \in {"save_modified", "update_modified"} /\ proc'[p].pc = "idle")
              => usersFile'.doc = proc[p].data]_vars

\* Both calls have returned with the first key still in place, and the
\* document holds update_user's change but not the token save_github_token wrote.
C12_Witness ==
    /\ \A p \in Threads : proc[p].pc = "idle"
    /\ lastMut.op = "save"
    /\ keyState = [salt |-> 1, key_file |-> TRUE, count |-> 1]
    /\ usersFile.exists /\ usersFile.key = 1
    /\ "github_token" \notin DOMAIN usersFile.doc
    /\ \E i \in DOMAIN usersFile.doc["users"] :
          /\ usersFile.doc["users"][i]["username"] = "bob"
          /\ usersFile.doc["users"][i]["password_hash"] = "h1"


\* ------------------------------------------------- C13: secret-shaped fields

\* The keys of the model's documents that are secret-shaped.
SecretShapedKeys == {"token", "githubToken", "password", "secret"}

\* C13: the configuration file as written has no token field, no githubToken
\* field and no other secret-shaped field in any section.
C13_NoSecretShapedFieldStored ==
    configFile.exists =>
        \A sec \in DOMAIN configFile.doc : (DOMAIN configFile.doc[sec]) \cap SecretShapedKeys = {}


\* ------------------------------------------------- C20: the salt

\* C20: a salt file that exists is never replaced by another salt.
C20_SaltGeneratedOnce ==
    [][(keyState.salt # 0 /\ keyState'.salt # 0) => keyState'.salt = keyState.salt]_vars


\* ------------------------------------------------- C14: sanitised responses

\* The endpoints of the main server that answer with sanitize_config_response's result.
SanitisingEndpoints ==
    {"GET /api/config/load", "POST /api/config/save",
     "PATCH /api/config/update", "PUT /api/config/replace"}

SanitisedResponse == server = "main" /\ lastResp.endpoint \in SanitisingEndpoints

\* C14: a document with a github section comes out of sanitize_config_response
\* without githubToken and token and with hasToken equal to
\* github_token_exists(), and the document passed in (the loaded configuration,
\* which may be DEFAULT_CONFIG itself) is as it was.
C14_SanitizeConfigResponse ==
    /\ [](SanitisedResponse /\ "github" \in DOMAIN lastResp.config =>
            /\ "githubToken" \notin DOMAIN lastResp.config["github"]
            /\ "token" \notin DOMAIN lastResp.config["github"]
            /\ lastResp.config["github"]["hasToken"] = github_token_exists(usersFile, keyState).ret)
    /\ [][(server = "main" /\ lastResp'.endpoint = "GET /api/config/load") =>
            (configFile' = configFile /\ defaultCfg' = defaultCfg)]_vars

\* The main server has answered an update that stored a token: hasToken is
\* true and the other github fields are still there.
C14_Witness ==
    /\ SanitisedResponse
    /\ lastResp.endpoint = "PATCH /api/config/update"
    /\ "github" \in DOMAIN lastResp.config
    /\ lastResp.config["github"]["hasToken"] = TRUE
    /\ Get(lastResp.config["github"], "branchName", "") = "dev"


\* ------------------------------------------------- C15: github_token_exists

\* C15: github_token_exists() is true exactly when get_github_token() yields
\* a non-empty decrypted token.
C15_ExistsIffPlaintextRetrievable ==
    github_token_exists(usersFile, keyState).ret
        <=> IsPlaintextToken(get_github_token(usersFile, keyState).ret)


\* ------------------------------------------------- C16: defaults when the file is absent

\* C16: while the configuration file is absent, config_handler.load_config
\* returns the built-in default document, whatever ran before.
C16_LoadReturnsBuiltInDefaults ==
    ~configFile.exists => ch_load_config(configFile, defaultCfg) = DEFAULT_CONFIG


\* ------------------------------------------------- C17: missing files are skipped

\* The cleaned paths of the allow-list a sync call reads from the configuration.
AllowList ==
    CleanPaths(parse_file_list(files_to_sync_of(load_config(configFile, defaultCfg).ret)))

\* A push that has staged at least one file and skipped at least one.
StagedWithGap(rec) ==
    /\ rec.kind = "push"
    /\ rec.file_list # <<>>
    /\ CleanPaths(rec.file_list) # AllowList

\* C17: a push stages exactly the allow-listed files that exist locally, with
\* their contents; when some were missing and some were staged the call goes
\* on to the commit and to the push commands, and it reports success whenever
\* one of the push commands went through.
C17_MissingFileSkipped ==
    [][\A c \in Calls :
          /\ (call[c].pc \in {"idle", "done"} /\ call'[c].pc = "built" /\ call'[c].kind = "push") =>
                /\ CleanPaths(call'[c].file_list) = AllowList \cap DOMAIN tree
                /\ stagingDirs'[c].files = [p \in AllowList \cap DOMAIN tree |-> tree[p]]
          /\ (call[c].pc = "built" /\ StagedWithGap(call[c]) /\ call'[c] # call[c]) =>
                call'[c].pc = "committed"
          /\ (call[c].pc = "committed" /\ StagedWithGap(call[c]) /\ call'[c] # call[c]) =>
                /\ call'[c].pc = "done"
                /\ call'[c].pushLog # <<>>
                /\ Pushed(call'[c].pushLog) => call'[c].result.success]_vars

\* A push has succeeded with a/b.json alone on the remote branch while c.json,
\* which the allow-list names, has no local file.
C17_Witness ==
    /\ call["c1"].kind = "push" /\ call["c1"].pc = "done"
    /\ call["c1"].result.success
    /\ Pushed(call["c1"].pushLog)
    /\ AllowList = {"a/b.json", "c.json"}
    /\ "c.json" \notin DOMAIN tree
    /\ remote.exists /\ DOMAIN remote.files = {"a/b.json"}

\* ------------------------------------------------- C18: nothing to commit

\* C18: a push whose staging directory is empty, so that the commit reports
\* "nothing to commit", goes on to the fetch and push steps.
C18_NothingToCommitContinues ==
    [][\A c \in Calls :
          (/\ call[c].pc = "built" /\ call[c].kind = "push"
           /\ call[c].file_list = <<>>
           /\ call'[c] # call[c])
              => call'[c].pc = "committed"]_vars


\* ------------------------------------------------- C19: pushing twice

\* C19: when a push follows a push that went through and stages the very
\* files that one left on the remote branch, its commit step finds nothing to
\* commit: the staging repository has no commit of its own after it.
C19_SecondPushNothingToCommit ==
    \A c \in Calls :
        (call[c].again /\ call[c].complete /\ call[c].pc = "committed") =>
            stagingDirs[call[c].temp_dir].head # "local"


\* ------------------------------------------------- C21: order of the push steps

\* The position of a command in a sequence of commands, 0 when it was not run.
StepIndex(steps, cmd) ==
    IF \E i \in DOMAIN steps : steps[i] = cmd
    THEN CHOOSE i \in DOMAIN steps : steps[i] = cmd
    ELSE 0

\* C21: when git_push, on the config path, reaches its first push command it
\* has run add, commit and fetch in that order, "pull origin <branch>" exactly
\* when the fetch succeeded, and "checkout -B <branch>" after the pull and
\* before the push.
C21_PushStepOrder ==
    \A c \in Calls :
        (call[c].kind = "push" /\ call[c].path = "config" /\ call[c].pc = "committed") =>
            LET steps == call[c].steps
                pull == StepIndex(steps, "pull")
                checkout == StepIndex(steps, "checkout -B")
            IN  /\ SubSeq(steps, 1, 3) = <<"add", "commit", "fetch">>
                /\ (pull # 0) <=> call[c].fetch_ok
                /\ checkout # 0
                /\ pull # 0 => pull < checkout


\* ------------------------------------------------- C22: pull and the checkout

\* C22: a git_pull has written to the real tree only when it met the remote
\* branch and checked origin/<branch> out; a git_pull whose checkout failed has
\* reported failure and has written nothing.
C22_PullWritesOnlyAfterCheckout ==
    \A c \in Calls :
        (call[c].kind = "pull" /\ call[c].pc = "done") =>
            /\ (call[c].branch_created \/ call[c].result.message = "checkout_failed") =>
                  (~call[c].result.success /\ call[c].synced = EmptyDict)
            /\ call[c].synced # EmptyDict =>
                  (call[c].remote_seen = "present" /\ ~call[c].branch_created)


\* ------------------------------------------------- C23: the token of a config request

\* C23: after a save, replace or update request of the main server that
\* carries github.githubToken, the configuration file has no githubToken and
\* the vault holds the stripped value: the token when the value is not blank,
\* no token when it is empty or blank.
C23_RequestTokenGoesToVault ==
    [][\A d \in ConfigDocs :
          (/\ "github" \in DOMAIN d /\ "githubToken" \in DOMAIN d["github"]
           /\ (MainSave(d) \/ MainReplace(d) \/ MainUpdate(d)))
              => /\ "github" \in DOMAIN configFile'.doc =>
                       "githubToken" \notin DOMAIN configFile'.doc["github"]
                 /\ get_github_token(usersFile', keyState').ret
                       = Plain(Strip(d["github"]["githubToken"]))]_vars


\* ------------------------------------------------- C24: a save that is not written

\* C24: a save_github_token that returned success has written the document,
\* and one that could not write it has returned failure and has left the token
\* stored before retrievable.
C24_SaveSucceedsOnlyIfWritten ==
    lastMut.op = "save" =>
        /\ lastMut.ret => lastMut.written
        /\ ~lastMut.written =>
              /\ ~lastMut.ret
              /\ get_github_token(usersFile, keyState).ret = lastMut.before


\* ------------------------------------------------- C25: the staging copy

\* The allow-list a sync call reads from the configuration, cleaned, in order.
AllowSeq ==
    LET file_list == parse_file_list(files_to_sync_of(load_config(configFile, defaultCfg).ret))
    IN  [i \in DOMAIN file_list |-> clean_file_path(file_list[i])]

C29_WritesStayInside ==
    \A c \in Calls :
        /\ c \in DOMAIN stagingDirs => (DOMAIN stagingDirs[c].files) \cap Outside = {}
        /\ (DOMAIN call[c].synced) \cap Outside = {}


\* ------------------------------------------------- C26: a document that cannot be read

\* decrypt_data would fail on the users file as it is.
Undecryptable == usersFile.exists /\ usersFile.key # load_encryption_key(keyState).key

\* C26: while the users file cannot be decrypted, no call changes it.
C26_UnreadableDocumentKept ==
    [][Undecryptable => usersFile' = usersFile]_vars


\* ------------------------------------------------- C30: users and token side by side

\* The users list and the token as the calls read them.
StoredUsers == Get(decrypt_data(usersFile, keyState).data, "users", <<>>)

StoredToken == get_github_token(usersFile, keyState).ret

\* C30: on a readable document, save_github_token and delete_github_token
\* leave the users list as it was, and update_user, delete_user and
\* create_user leave the token as it was.
C30_UsersAndTokenIndependent ==
    [][VaultReadable =>
          /\ ((\E t \in Tokens \cup {" "} : SaveToken(t)) \/ DeleteToken) =>
                Get(decrypt_data(usersFile', keyState').data, "users", <<>>) = StoredUsers
          /\ (\/ \E u \in Usernames, d \in UserUpdates : UpdateUser(u, d)
              \/ \E u \in Usernames : DeleteUser(u)
              \/ \E u \in Usernames : CreateUser(u, "h2")) =>
                get_github_token(usersFile', keyState').ret = StoredToken]_vars

\* A token has been saved and deleted around user changes: the document has
\* the second user, the admin is inactive, and no token is left.
C30_Witness ==
    /\ VaultReadable /\ usersFile.exists
    /\ lastMut.op = "delete" /\ lastMut.before = Plain("ghp_A")
    /\ Len(StoredUsers) = 2
    /\ StoredUsers[1]["is_active"] = FALSE
    /\ StoredToken = Empty


\* ------------------------------------------------- C27: what a pull leaves alone

\* C27: the step of git_pull that writes to the real tree changes only files
\* the allow-list names and the remote branch held; it removes no file.
C27_PullChangesOnlyRemoteFiles ==
    [][\A c \in Calls :
          (call[c].kind = "pull" /\ call[c].pc = "checked_out" /\ call'[c].pc = "done") =>
              /\ DOMAIN tree \subseteq DOMAIN tree'
              /\ \A p \in DOMAIN tree' :
                    (p \notin DOMAIN tree \/ tree'[p] # tree[p]) =>
                        (p \in AllowList /\ p \in DOMAIN call[c].remote_files)]_vars

\* ------------------------------------------------- C28: what a push leaves alone

\* C28: no step of git_push changes the real tree, whether the call ends in
\* success, in the exception after the cascade or in an earlier exception.
C28_PushLeavesTreeAlone ==
    [][(\/ \E r \in GitRequests, b \in BOOLEAN : GitPushStart("c1", r, b)
        \/ \E f, l \in BOOLEAN : GitPushCommit("c1", f, l)
        \/ \E n \in Nets, s \in BOOLEAN : GitPushCascade("c1", n, s))
          => tree' = tree]_vars

\* A push has gone through at the first attempt after merging the remote
\* branch, which holds a file the real tree does not have.
C28_Witness ==
    /\ call["c1"].kind = "push" /\ call["c1"].pc = "done"
    /\ call["c1"].result.success
    /\ call["c1"].remote_seen = "present"
    /\ call["c1"].pushLog = <<[strategy |-> "push", ok |-> TRUE]>>
    /\ "a/b.json" \in DOMAIN remote.files
    /\ "a/b.json" \notin DOMAIN tree

=============================================================================
